---- MODULE Spec2Model ----
(***************************************************************************)
(* A model of the multi-agent orchestration loop of minions_finance        *)
(* (src/minions.py, class Minions): run_multi_agent with its routing call, *)
(* its four role branches, the JSON extraction it applies to every remote  *)
(* response, and the values it returns.                                    *)
(*                                                                         *)
(* Text.  A Python str is a sequence of symbols.  The symbols that the     *)
(* extraction code or the JSON grammar looks at are kept as they are: the  *)
(* braces, the dollar sign, the double quote, the colon, the comma, the    *)
(* newline, the digits.  A symbol longer than one character stands for a   *)
(* run of characters that none of the regular expressions, splits or JSON  *)
(* rules can break apart: the three-backtick fence, the word json, the     *)
(* literal null, backslash-bracket pairs, key names, agent names and the   *)
(* fixed messages of the program.                                          *)
(*                                                                         *)
(* Values.  A Python value is a record [t, v]: t is "str", "num", "null"   *)
(* or "obj" and v is the text of the value (the characters of a str, the   *)
(* digits of a number, the source text of a nested object).  A dict, as    *)
(* json.loads returns it, is a sequence of <<key, value>> pairs in         *)
(* insertion order with no key repeated.                                   *)
(*                                                                         *)
(* Specifications.  Spec is one run of run_multi_agent and of run; SpecTwo *)
(* is two runs interleaved on one Minions object or on two; SpecBatch is   *)
(* the loop of the driver scripts (src/minions.py __main__, baseline.py);  *)
(* SpecExtract applies _extract_json_string to every short response;       *)
(* SpecChunk runs chunk_by_section and create_chunks of utils/chunking.py  *)
(* step by step, and SpecSectionFair is chunk_by_section alone under weak  *)
(* fairness; SpecRank is bm25_retrieve_top_k_chunks of utils/retrievers.py *)
(* on any scores, and SpecQuery is the same function and the tool          *)
(* retrieve_relevant_context on texts; SpecRun is one run called with a    *)
(* max_rounds argument; SpecHistory is the calls on a ConversationHistory  *)
(* of utils/conversation_history.py.                                       *)
(***************************************************************************)
EXTENDS Integers, Sequences, FiniteSets, TLC

\* ------------------------------------------------------------------ bounds

\* The largest max_rounds a Minions object is constructed with.
MaxRounds == 3

\* ----------------------------------------------------------------- symbols

LBRACE == "{"
RBRACE == "}"
DOLLAR == "$"
QUOTE == "\""
COLON == ":"
COMMA == ","
NL == "\n"
SPACE == " "
FENCE == "<fence>"
JSONWORD == "json"
NULLWORD == "null"
LATEXOPEN == "\\["
LATEXCLOSE == "\\]"
LETTER == "a"
Digits == {"0", "7"}

\* ------------------------------------------------------------ Python values

Str(s) == [t |-> "str", v |-> s]
Num(s) == [t |-> "num", v |-> s]
None == [t |-> "null", v |-> <<>>]
Obj(s) == [t |-> "obj", v |-> s]

\* str(x): a str is itself, a number its digits, None the text None, a dict
\* its repr (kept as the source text of the object).
PyStr(x) ==
    IF x.t = "str" THEN x
    ELSE IF x.t = "null" THEN Str(<<"None">>)
    ELSE Str(x.v)

\* isinstance(x, str)
IsStr(x) == x.t = "str"

\* ------------------------------------------------------------- dict access

\* key in d
HasKey(d, k) == \E i \in 1..Len(d) : d[i][1] = k

\* d.get(k, default)
Get(d, k, default) ==
    IF HasKey(d, k)
    THEN d[CHOOSE i \in 1..Len(d) : d[i][1] = k][2]
    ELSE default

\* d[k] = x for a key that is present (the position of the key is kept)
SetKey(d, k, x) == [i \in 1..Len(d) |-> IF d[i][1] = k THEN <<k, x>> ELSE d[i]]

\* d[k] = x as json.loads builds a dict: a repeated key keeps its first
\* position and takes the last value
Put(d, k, x) == IF HasKey(d, k) THEN SetKey(d, k, x) ELSE Append(d, <<k, x>>)

\* ------------------------------------------------------ text (str) helpers

\* The least j >= i with s[j] = sym, or 0 when there is none (str.find).
Find(s, sym, i) ==
    IF \E j \in i..Len(s) : s[j] = sym
    THEN CHOOSE j \in i..Len(s) : s[j] = sym /\ \A k \in i..(j - 1) : s[k] # sym
    ELSE 0

\* The greatest j with s[j] = sym, or 0 when there is none (str.rfind).
RFind(s, sym) ==
    IF \E j \in 1..Len(s) : s[j] = sym
    THEN CHOOSE j \in 1..Len(s) : s[j] = sym /\ \A k \in (j + 1)..Len(s) : s[k] # sym
    ELSE 0

\* s[i:j+1], empty when the range is empty
Slice(s, i, j) == IF i > j THEN <<>> ELSE SubSeq(s, i, j)

Whitespace == {NL, SPACE}

\* str.strip()
RECURSIVE LStrip(_)
LStrip(s) == IF s # <<>> /\ Head(s) \in Whitespace THEN LStrip(Tail(s)) ELSE s

RECURSIVE RStrip(_)
RStrip(s) ==
    IF s # <<>> /\ s[Len(s)] \in Whitespace
    THEN RStrip(SubSeq(s, 1, Len(s) - 1))
    ELSE s

Strip(s) == RStrip(LStrip(s))

\* The least i >= from where the text "```json" starts, or 0.
FindFenceJson(s, from) ==
    IF \E i \in from..(Len(s) - 1) : s[i] = FENCE /\ s[i + 1] = JSONWORD
    THEN CHOOSE i \in from..(Len(s) - 1) :
            /\ s[i] = FENCE /\ s[i + 1] = JSONWORD
            /\ \A k \in from..(i - 1) : ~(s[k] = FENCE /\ s[k + 1] = JSONWORD)
    ELSE 0

\* response.split("```json")[1], for a response that holds "```json": the
\* text between its first and its second occurrence (or the end).
SplitJsonFenceSecond(s) ==
    LET i == FindFenceJson(s, 1)
        k == FindFenceJson(s, i + 2)
    IN  Slice(s, i + 2, IF k = 0 THEN Len(s) ELSE k - 1)

\* x.split("```", 1)[0]: the text before the first fence (all of x if none)
BeforeFence(s) ==
    LET i == Find(s, FENCE, 1) IN IF i = 0 THEN s ELSE Slice(s, 1, i - 1)

\* x.split("```", 1)[1], for an x that holds a fence: the text after the first
AfterFence(s) == Slice(s, Find(s, FENCE, 1) + 1, Len(s))

\* re.sub(open + '.*?' + close, '', s) read from position i on: the leftmost
\* open symbol that has a close symbol after it on the same line is removed
\* together with everything up to the nearest such close symbol, and the scan
\* goes on after it ('.' does not match a newline).
RECURSIVE SubPairsFrom(_, _, _, _)
SubPairsFrom(s, i, open, close) ==
    IF i > Len(s) THEN <<>>
    ELSE LET j == Find(s, close, i + 1)
         IN  IF /\ s[i] = open
                /\ j # 0
                /\ \A k \in (i + 1)..(j - 1) : s[k] # NL
             THEN SubPairsFrom(s, j + 1, open, close)
             ELSE <<s[i]>> \o SubPairsFrom(s, i + 1, open, close)

SubPairs(s, open, close) == SubPairsFrom(s, 1, open, close)

\* DropBeforeBrace with the pattern unanchored at the brace: nothing goes.
MutKeepsLeadingText(s) == s

\* re.sub(r'^[^{]*', '', s): the text before the first "{" goes (all of it
\* when there is no "{")
DropBeforeBrace(s) ==
    LET i == Find(s, LBRACE, 1) IN IF i = 0 THEN <<>> ELSE Slice(s, i, Len(s))

\* re.sub(r'[^}]*$', '', s): the text after the last "}" goes (all of it when
\* there is no "}")
DropAfterBrace(s) == Slice(s, 1, RFind(s, RBRACE))

\* Minions._extract_json_string for a str response (what chat returns).
_extract_json_string(response) ==
    LET unfenced ==
            IF FindFenceJson(response, 1) # 0
            THEN Strip(BeforeFence(SplitJsonFenceSecond(response)))
            ELSE IF Find(response, FENCE, 1) # 0
            THEN Strip(BeforeFence(AfterFence(response)))
            ELSE response
        nolatex == SubPairs(unfenced, LATEXOPEN, LATEXCLOSE)
        nodollar == SubPairs(nolatex, DOLLAR, DOLLAR)
    IN  DropAfterBrace(DropBeforeBrace(nodollar))

\* ----------------------------------------------------------- json.loads

\* The result of a parsing step: ok, the value read, the dict read when the
\* value is an object, and the position after it.
Failed == [ok |-> FALSE, val |-> None, d |-> <<>>, next |-> 0]
Parsed(val, d, next) == [ok |-> TRUE, val |-> val, d |-> d, next |-> next]

\* The position of the first non-whitespace symbol at or after i
\* (Len(s) + 1 when there is none).
RECURSIVE SkipWs(_, _)
SkipWs(s, i) ==
    IF i <= Len(s) /\ s[i] \in Whitespace THEN SkipWs(s, i + 1) ELSE i

\* The end of the number that starts at the digit s[i]: a leading 0 is a
\* number by itself, any other digit takes the digits that follow it.
RECURSIVE DigitsEnd(_, _)
DigitsEnd(s, i) ==
    IF i < Len(s) /\ s[i + 1] \in Digits THEN DigitsEnd(s, i + 1) ELSE i

\* A string literal that opens at the quote s[i]: it closes at the next quote
\* and may hold no newline (a control character) and no backslash-bracket
\* (an invalid escape).
ParseString(s, i) ==
    LET j == Find(s, QUOTE, i + 1)
    IN  IF /\ j # 0
           /\ \A k \in (i + 1)..(j - 1) : s[k] \notin {NL, LATEXOPEN, LATEXCLOSE}
        THEN Parsed(Str(Slice(s, i + 1, j - 1)), <<>>, j + 1)
        ELSE Failed

RECURSIVE ParseValue(_, _)
RECURSIVE ParsePairs(_, _, _)

\* The members of an object from the key expected at i on, d being the
\* members read so far: "key" : value, then a comma and the next member or
\* the closing brace.
ParsePairs(s, i, d) ==
    IF i > Len(s) \/ s[i] # QUOTE THEN Failed
    ELSE LET key == ParseString(s, i)
             c == SkipWs(s, key.next)
         IN  IF ~key.ok \/ c > Len(s) \/ s[c] # COLON THEN Failed
             ELSE LET val == ParseValue(s, SkipWs(s, c + 1))
                      e == SkipWs(s, val.next)
                      d2 == Put(d, key.val.v, val.val)
                  IN  IF ~val.ok \/ e > Len(s) THEN Failed
                      ELSE IF s[e] = RBRACE THEN Parsed(None, d2, e + 1)
                      ELSE IF s[e] = COMMA THEN ParsePairs(s, SkipWs(s, e + 1), d2)
                      ELSE Failed

\* An object that opens at the brace s[i].
ParseObject(s, i) ==
    LET j == SkipWs(s, i + 1)
        r == IF j <= Len(s) /\ s[j] = RBRACE
             THEN Parsed(None, <<>>, j + 1)
             ELSE ParsePairs(s, j, <<>>)
    IN  IF r.ok THEN Parsed(Obj(Slice(s, i, r.next - 1)), r.d, r.next) ELSE Failed

\* The JSON value that starts at s[i].
ParseValue(s, i) ==
    IF i > Len(s) THEN Failed
    ELSE IF s[i] = QUOTE THEN ParseString(s, i)
    ELSE IF s[i] = NULLWORD THEN Parsed(None, <<>>, i + 1)
    ELSE IF s[i] = "0" THEN Parsed(Num(<<"0">>), <<>>, i + 1)
    ELSE IF s[i] \in Digits
         THEN Parsed(Num(Slice(s, i, DigitsEnd(s, i))), <<>>, DigitsEnd(s, i) + 1)
    ELSE IF s[i] = LBRACE THEN ParseObject(s, i)
    ELSE Failed

\* json.loads(text): one value with whitespace around it and nothing else;
\* ok = FALSE stands for the exception json.loads raises.
json_loads(text) ==
    LET r == ParseValue(text, SkipWs(text, 1))
    IN  IF r.ok /\ SkipWs(text, r.next) > Len(text) THEN r ELSE Failed

\* ------------------------------------------------ names, keys and messages

RetrieverAgent == "RetrieverAgent"
SimpleFinanceAgent == "SimpleFinanceAgent"
CalculatorAgent == "CalculatorAgent"
AggregatorAgent == "AggregatorAgent"
Orchestrator == "Orchestrator"

\* The four names the dispatch compares selected_agent with.
AgentNames == {RetrieverAgent, SimpleFinanceAgent, CalculatorAgent, AggregatorAgent}

K_agent == <<"agent">>
K_subtask == <<"subtask">>
K_relevant_text == <<"relevant_text">>
K_analysis == <<"analysis">>
K_calculation == <<"calculation">>
K_result == <<"result">>
K_explanation == <<"explanation">>
K_final_answer == <<"final_answer">>

\* The strings run_multi_agent returns besides the Aggregator's answer.
\* "{e}" stands for the text of the exception json.loads raised.
ErrOrchestrator == Str(<<"Error in orchestrator: ", "{e}">>)
ErrRetriever == Str(<<"Error: Could not parse RetrieverAgent response">>)
ErrSimpleFinance == Str(<<"Error: Could not parse SimpleFinanceAgent response">>)
ErrCalculator == Str(<<"Error: Could not parse CalculatorAgent response">>)
ErrAggregator == Str(<<"Error: Could not parse AggregatorAgent response">>)
ErrInvalidAgent == Str(<<"Error: Invalid agent selected">>)
ErrNoFinalAnswer == Str(<<"Error: No final answer provided">>)
ErrMaxRounds ==
    Str(<<"Error: Maximum number of rounds exceeded without reaching a final answer">>)

\* The dict the Calculator branch records when its try block fails.
\* "{str(e)}" stands for the text of the exception.
fallback_result ==
    << <<K_calculation, Str(<<"Error in calculation">>)>>,
       <<K_result, Str(<<"0">>)>>,
       <<K_explanation, Str(<<"Failed to parse calculator response: ", "{str(e)}">>)>> >>

\* ------------------------------------------------------ the remote client

\* JSON text of an object with the given members, as the prompts ask for it:
\* {"k1":v1,"k2":v2}
Lit(s) == <<QUOTE>> \o s \o <<QUOTE>>

RECURSIVE Members(_)
Members(ms) ==
    IF ms = <<>> THEN <<>>
    ELSE Lit(ms[1][1]) \o <<COLON>> \o ms[1][2]
         \o (IF Len(ms) > 1 THEN <<COMMA>> ELSE <<>>) \o Members(Tail(ms))

ObjectText(ms) == <<LBRACE>> \o Members(ms) \o <<RBRACE>>

\* The same text the way chat models often send it: a remark, then the
\* object inside a ```json fence.
Fenced(text) == <<LETTER, FENCE, JSONWORD, NL>> \o text \o <<NL, FENCE>>

RouteTo(name) == ObjectText(<< <<K_agent, Lit(<<name>>)>>, <<K_subtask, Lit(<<LETTER>>)>> >>)

\* What the remote model may answer to the routing prompt: each of the four
\* agents, a fenced decision, an unknown name, a decision with no agent
\* field, a null agent, text with no JSON in it, and braces around no JSON.
OrchestratorReplies ==
    {RouteTo(a) : a \in AgentNames}
    \cup {Fenced(RouteTo(AggregatorAgent)),
          RouteTo(LETTER),
          ObjectText(<< <<K_subtask, Lit(<<LETTER>>)>> >>),
          ObjectText(<< <<K_agent, <<NULLWORD>>>> >>),
          <<LETTER>>,
          <<LBRACE, LETTER, RBRACE>>}

\* What it may answer to the Retriever prompt: one of two narrowed texts, an
\* object with no relevant_text, or no JSON.
RetrieverReplies ==
    {ObjectText(<< <<K_relevant_text, Lit(<<LETTER>>)>> >>),
     ObjectText(<< <<K_relevant_text, Lit(<<"7">>)>>, <<K_explanation, Lit(<<LETTER>>)>> >>),
     ObjectText(<< <<K_explanation, Lit(<<LETTER>>)>> >>),
     <<LETTER>>}

SimpleFinanceReplies ==
    {ObjectText(<< <<K_analysis, Lit(<<LETTER>>)>> >>),
     <<LETTER, LBRACE>>}

\* To the Calculator prompt: the three fields with a string result, with a
\* number result, with a null result, with a field missing, and no JSON.
CalculatorReplies ==
    {ObjectText(<< <<K_calculation, Lit(<<LETTER>>)>>, <<K_result, Lit(<<"7">>)>>,
                   <<K_explanation, Lit(<<LETTER>>)>> >>),
     ObjectText(<< <<K_calculation, Lit(<<LETTER>>)>>, <<K_result, <<"7", "0">>>>,
                   <<K_explanation, Lit(<<LETTER>>)>> >>),
     ObjectText(<< <<K_calculation, Lit(<<LETTER>>)>>, <<K_result, <<NULLWORD>>>>,
                   <<K_explanation, Lit(<<LETTER>>)>> >>),
     ObjectText(<< <<K_calculation, Lit(<<LETTER>>)>>, <<K_result, Lit(<<"7">>)>> >>),
     <<LETTER>>}

\* The answers an Aggregator reply may carry: plain text, one dollar amount,
\* two dollar amounts.
FinalAnswers ==
    {<<LETTER>>, <<DOLLAR, "7">>, <<DOLLAR, "7", SPACE, DOLLAR, "0">>}

AnswerText(s) == ObjectText(<< <<K_final_answer, Lit(s)>> >>)

\* To the Aggregator prompt: an answer, a fenced answer, a null answer, an
\* object with no final_answer, or no JSON.
AggregatorReplies ==
    {AnswerText(s) : s \in FinalAnswers}
    \cup {Fenced(AnswerText(<<LETTER>>)),
          ObjectText(<< <<K_final_answer, <<NULLWORD>>>> >>),
          ObjectText(<< <<K_explanation, Lit(<<LETTER>>)>> >>),
          <<RBRACE, LETTER>>}

\* remote_client.chat(...): it returns the model's text, or it raises
\* whatever the API call raised (OpenAIClient.chat prints and re-raises).
Returns(text) == [raised |-> FALSE, text |-> text]
Raises == [raised |-> TRUE, text |-> <<>>]
chat(replies) == {Returns(text) : text \in replies} \cup {Raises}

\* The documents a caller passes as context.
Contexts == {<<"doc">>}

\* ------------------------------------------------------------------- state

VARIABLES
    max_rounds,        \* self.max_rounds
    pc,                \* "constructed", "loop" (line 213), "agent" (line 238),
                       \* "returned", "raised"
    round_count,       \* round_count
    current_context,   \* current_context
    agent_responses,   \* agent_responses: the output history
    conversation_log,  \* self.conversation_log
    selected_agent,    \* selected_agent
    subtask,           \* subtask
    ret,               \* the value run_multi_agent returned
    exit,              \* the return statement it left through
    log_file,          \* the file at log_path, once run has written it
    run_max_rounds,    \* the max_rounds argument run was called with
    calls              \* every remote_client.chat call of the run, in order:
                       \* the round, the role asked, the context, the
                       \* subtask and the previous responses put in the
                       \* prompt, and what came back

vars == <<max_rounds, pc, round_count, current_context, agent_responses,
          conversation_log, selected_agent, subtask, ret, exit, log_file,
          run_max_rounds, calls>>

\* The other parts of the repository, each one a record and each one
\* exercised by a specification of its own further down.
VARIABLES
    other,             \* a second run of run_multi_agent while it is
                       \* suspended, and the Minions object it runs on
    batch,             \* the batch loop of a driver script
    ex,                \* one application of _extract_json_string
    cs,                \* one call of a splitter of utils/chunking.py
    bm,                \* one call of bm25_retrieve_top_k_chunks or of
                       \* retrieve_relevant_context
    ch                 \* a ConversationHistory object and the call on it

aux == <<other, batch, ex, cs, bm, ch>>
allvars == <<vars, aux>>

\* A part that takes no step in the specification at hand.
Off == [pc |-> "off"]

\* A chat call as the remote side sees it.  The routing prompt and the
\* Aggregator prompt hold json.dumps(agent_responses), the other prompts
\* hold the working context.
Call(role, ctx, task, out) ==
    [round |-> round_count, role |-> role, context |-> ctx, subtask |-> task,
     previous |-> IF role \in {Orchestrator, AggregatorAgent}
                  THEN agent_responses ELSE <<>>,
     raised |-> out.raised, reply |-> out.text]

\* No file at log_path yet.
NoFile == [written |-> FALSE, entries |-> <<>>]

\* The max_rounds argument of run: left at its default None, or a number.
NoArgument == [given |-> FALSE, value |-> 0]
Argument(m) == [given |-> TRUE, value |-> m]

\* The max_rounds arguments a caller passes to run.
RunArguments == {NoArgument} \cup {Argument(m) : m \in 0..MaxRounds}

\* Minions.__init__
Init ==
    /\ max_rounds \in 0..MaxRounds
    /\ pc = "constructed"
    /\ round_count = 0
    /\ current_context = None
    /\ agent_responses = <<>>
    /\ conversation_log = <<>>
    /\ selected_agent = None
    /\ subtask = None
    /\ ret = None
    /\ exit = "none"
    /\ log_file = NoFile
    /\ run_max_rounds = NoArgument
    /\ calls = <<>>
    /\ other = Off /\ batch = Off /\ ex = Off /\ cs = Off /\ bm = Off /\ ch = Off

\* return value  (at the return statement named site)
Return(value, site) ==
    /\ pc' = "returned"
    /\ ret' = value
    /\ exit' = site

\* An exception leaves run_multi_agent: nothing is returned.
Propagate ==
    /\ pc' = "raised"
    /\ UNCHANGED <<ret, exit>>

\* run calls run_multi_agent with the task, the metadata and the context
\* (line 326), whatever its max_rounds argument; run_multi_agent, lines 208-211
Enter ==
    /\ pc = "constructed"
    /\ \E context \in Contexts : current_context' = Str(context)
    /\ conversation_log' = <<>>
    /\ agent_responses' = <<>>
    /\ round_count' = 0
    /\ pc' = "loop"
    /\ UNCHANGED <<log_file, run_max_rounds, aux>>
    /\ UNCHANGED <<max_rounds, selected_agent, subtask, ret, exit, calls>>

\* LoopGuard with the comparison off by one: one round too many.
MutLoopGuardInclusive == round_count <= max_rounds

\* while round_count < self.max_rounds
LoopGuard == round_count < max_rounds

\* The loop ends: line 322
MaxRoundsExit ==
    /\ pc = "loop"
    /\ ~LoopGuard
    /\ Return(ErrMaxRounds, "max_rounds")
    /\ UNCHANGED <<log_file, run_max_rounds, aux>>
    /\ UNCHANGED <<max_rounds, round_count, current_context, agent_responses,
                   conversation_log, selected_agent, subtask, calls>>

\* OrchestratorDecision with the parse error swallowed: the round goes on
\* with an empty decision.
MutDecisionSwallowsError(response) ==
    LET r == json_loads(_extract_json_string(response))
    IN  IF r.ok THEN r ELSE Parsed(Obj(<<LBRACE, RBRACE>>), <<>>, 1)

\* json.loads(response_text) of the routing response, lines 226-231
OrchestratorDecision(response) == json_loads(_extract_json_string(response))

\* The orchestrator step of a round, lines 214-235
OrchestratorStep ==
    /\ pc = "loop"
    /\ LoopGuard
    /\ round_count' = round_count + 1
    /\ \E out \in chat(OrchestratorReplies) :
        /\ calls' = Append(calls, [Call(Orchestrator, None, None, out)
                                     EXCEPT !.round = round_count + 1])
        /\ IF out.raised
           THEN /\ Propagate
                /\ UNCHANGED <<conversation_log, selected_agent, subtask>>
           ELSE LET orchestrator_decision == OrchestratorDecision(out.text)
                IN  IF ~orchestrator_decision.ok
                    THEN /\ Return(ErrOrchestrator, "orchestrator_parse")
                         /\ UNCHANGED <<conversation_log, selected_agent, subtask>>
                    ELSE /\ conversation_log' =
                                Append(conversation_log,
                                       [type |-> "orchestrator_response",
                                        content |-> orchestrator_decision.d])
                         /\ selected_agent' = Get(orchestrator_decision.d, K_agent, Str(<<>>))
                         /\ subtask' = Get(orchestrator_decision.d, K_subtask, Str(<<>>))
                         /\ pc' = "agent"
                         /\ UNCHANGED <<ret, exit>>
    /\ UNCHANGED <<log_file, run_max_rounds, aux>>
    /\ UNCHANGED <<max_rounds, current_context, agent_responses>>

\* Branch with the last elif written as else: any other name falls through
\* to a role.
MutBranchFallsThrough(agent) ==
    IF agent = Str(<<RetrieverAgent>>) THEN RetrieverAgent
    ELSE IF agent = Str(<<CalculatorAgent>>) THEN CalculatorAgent
    ELSE IF agent = Str(<<AggregatorAgent>>) THEN AggregatorAgent
    ELSE SimpleFinanceAgent

\* The branch of the if/elif chain of lines 238-318 that selected_agent takes.
Branch(agent) ==
    IF agent = Str(<<RetrieverAgent>>) THEN RetrieverAgent
    ELSE IF agent = Str(<<SimpleFinanceAgent>>) THEN SimpleFinanceAgent
    ELSE IF agent = Str(<<CalculatorAgent>>) THEN CalculatorAgent
    ELSE IF agent = Str(<<AggregatorAgent>>) THEN AggregatorAgent
    ELSE "else"

\* OnParseError with the exception raised again, as OpenAIClient.chat does.
MutParseErrorReraised(message, site) ==
    /\ pc' = "raised"
    /\ UNCHANGED <<ret, exit>>

\* What an except block of a role branch does with the exception: it returns
\* the branch's error string.
OnParseError(message, site) == Return(message, site)

\* self.conversation_log.append({"type": "agent_response", "content":
\* agent_responses}) and back to the loop head, line 320.  The entry holds the
\* list object itself, not a copy: it is kept as a reference and read through
\* LogContent.
NextRound ==
    /\ conversation_log' =
            Append(conversation_log,
                   [type |-> "agent_response", content |-> <<>>])
    /\ pc' = "loop"
    /\ UNCHANGED <<ret, exit>>

\* The RetrieverAgent branch, lines 238-253
RetrieverStep ==
    /\ pc = "agent"
    /\ Branch(selected_agent) = RetrieverAgent
    /\ \E out \in chat(RetrieverReplies) :
        /\ calls' = Append(calls, Call(RetrieverAgent, current_context, subtask, out))
        /\ IF out.raised
           THEN /\ Propagate
                /\ UNCHANGED <<current_context, agent_responses, conversation_log>>
           ELSE LET agent_result == json_loads(_extract_json_string(out.text))
                IN  IF ~agent_result.ok
                    THEN /\ OnParseError(ErrRetriever, "retriever_parse")
                         /\ UNCHANGED <<current_context, agent_responses, conversation_log>>
                    ELSE /\ current_context' = Get(agent_result.d, K_relevant_text, Str(<<>>))
                         /\ agent_responses' =
                                Append(agent_responses,
                                       [agent |-> RetrieverAgent, result |-> agent_result.d])
                         /\ NextRound
    /\ UNCHANGED <<log_file, run_max_rounds, aux>>
    /\ UNCHANGED <<max_rounds, round_count, selected_agent, subtask>>

\* The SimpleFinanceAgent branch, lines 255-269
SimpleFinanceStep ==
    /\ pc = "agent"
    /\ Branch(selected_agent) = SimpleFinanceAgent
    /\ \E out \in chat(SimpleFinanceReplies) :
        /\ calls' = Append(calls, Call(SimpleFinanceAgent, current_context, subtask, out))
        /\ IF out.raised
           THEN /\ Propagate
                /\ UNCHANGED <<agent_responses, conversation_log>>
           ELSE LET agent_result == json_loads(_extract_json_string(out.text))
                IN  IF ~agent_result.ok
                    THEN /\ OnParseError(ErrSimpleFinance, "simple_finance_parse")
                         /\ UNCHANGED <<agent_responses, conversation_log>>
                    ELSE /\ agent_responses' =
                                Append(agent_responses,
                                       [agent |-> SimpleFinanceAgent, result |-> agent_result.d])
                         /\ NextRound
    /\ UNCHANGED <<log_file, run_max_rounds, aux>>
    /\ UNCHANGED <<max_rounds, round_count, current_context, selected_agent, subtask>>

\* required_fields, line 283
required_fields == {K_calculation, K_result, K_explanation}

\* all(field in agent_result for field in required_fields), line 284
HasRequiredFields(agent_result) == \A field \in required_fields : HasKey(agent_result, field)

\* WithStringResult with the conversion left out.
MutResultKept(agent_result) == agent_result

\* Lines 286-287: a result that is no str is replaced by str(result).
WithStringResult(agent_result) ==
    IF ~IsStr(Get(agent_result, K_result, None))
    THEN SetKey(agent_result, K_result, PyStr(Get(agent_result, K_result, None)))
    ELSE agent_result

\* The CalculatorAgent branch, lines 271-298
CalculatorStep ==
    /\ pc = "agent"
    /\ Branch(selected_agent) = CalculatorAgent
    /\ \E out \in chat(CalculatorReplies) :
        /\ calls' = Append(calls, Call(CalculatorAgent, current_context, subtask, out))
        /\ IF out.raised
           THEN /\ Propagate
                /\ UNCHANGED <<agent_responses, conversation_log>>
           ELSE LET agent_result == json_loads(_extract_json_string(out.text))
                IN  IF agent_result.ok /\ HasRequiredFields(agent_result.d)
                    THEN /\ agent_responses' =
                                Append(agent_responses,
                                       [agent |-> CalculatorAgent,
                                        result |-> WithStringResult(agent_result.d)])
                         /\ NextRound
                    ELSE /\ agent_responses' =
                                Append(agent_responses,
                                       [agent |-> CalculatorAgent, result |-> fallback_result])
                         /\ OnParseError(ErrCalculator, "calculator_parse")
                         /\ UNCHANGED conversation_log
    /\ UNCHANGED <<log_file, run_max_rounds, aux>>
    /\ UNCHANGED <<max_rounds, round_count, current_context, selected_agent, subtask>>

\* agent_result.get("final_answer", "Error: No final answer provided"), line 311
FinalAnswerOf(agent_result) == Get(agent_result, K_final_answer, ErrNoFinalAnswer)

\* The AggregatorAgent branch, lines 300-315
AggregatorStep ==
    /\ pc = "agent"
    /\ Branch(selected_agent) = AggregatorAgent
    /\ \E out \in chat(AggregatorReplies) :
        /\ calls' = Append(calls, Call(AggregatorAgent, None, subtask, out))
        /\ IF out.raised
           THEN Propagate
           ELSE LET agent_result == json_loads(_extract_json_string(out.text))
                IN  IF agent_result.ok
                    THEN Return(FinalAnswerOf(agent_result.d), "aggregator_answer")
                    ELSE OnParseError(ErrAggregator, "aggregator_parse")
    /\ UNCHANGED <<log_file, run_max_rounds, aux>>
    /\ UNCHANGED <<max_rounds, round_count, current_context, agent_responses,
                   conversation_log, selected_agent, subtask>>

\* The else branch, lines 316-318
InvalidAgentStep ==
    /\ pc = "agent"
    /\ Branch(selected_agent) = "else"
    /\ Return(ErrInvalidAgent, "invalid_agent")
    /\ UNCHANGED <<log_file, run_max_rounds, aux>>
    /\ UNCHANGED <<max_rounds, round_count, current_context, agent_responses,
                   conversation_log, selected_agent, subtask, calls>>

\* What json.dump(self.conversation_log) reads in an entry, line 332.
LogContent(entry) ==
    IF entry.type = "agent_response" THEN agent_responses ELSE entry.content

\* The log_path arguments of run: none, or the path of a file.
LogPaths == {None, Str(<<"log.json">>)}

\* json.dump(self.conversation_log, f): the entries as the file holds them.
Dumped(log) ==
    [i \in 1..Len(log) |-> [type |-> log[i].type, content |-> LogContent(log[i])]]

\* Minions.run after run_multi_agent has returned, lines 328-334: with a
\* log_path the conversation log is written to the file; the final answer
\* is returned either way.  An exception of run_multi_agent passes through
\* run before this point.
SaveLog ==
    /\ pc = "returned"
    /\ ~log_file.written
    /\ \E log_path \in LogPaths :
        /\ log_path # None
        /\ log_file' = [written |-> TRUE, entries |-> Dumped(conversation_log)]
    /\ UNCHANGED <<run_max_rounds, aux>>
    /\ UNCHANGED <<max_rounds, pc, round_count, current_context, agent_responses,
                   conversation_log, selected_agent, subtask, ret, exit, calls>>

Next ==
    \/ Enter
    \/ MaxRoundsExit
    \/ OrchestratorStep
    \/ RetrieverStep
    \/ SimpleFinanceStep
    \/ CalculatorStep
    \/ AggregatorStep
    \/ InvalidAgentStep
    \/ SaveLog

Spec == Init /\ [][Next]_allvars

\* =================================================================== claims

\* What the code reads out of the reply of a call.
ParsedReply(c) == json_loads(_extract_json_string(c.reply))

\* The calls of the run a role (not the routing prompt) answered or failed.
RoutingCalls == {i \in 1..Len(calls) : calls[i].role = Orchestrator}
RoleCalls == {i \in 1..Len(calls) : calls[i].role # Orchestrator}

\* The error strings of a run, the round limit apart.
ErrorStrings ==
    {ErrOrchestrator, ErrRetriever, ErrSimpleFinance, ErrCalculator, ErrAggregator,
     ErrInvalidAgent, ErrNoFinalAnswer}

\* The run has ended with an error outcome.
ErrorOutcome == pc = "raised" \/ (pc = "returned" /\ ret \in ErrorStrings)

\* An Aggregator invocation of the run produced a non-null final_answer.
AggregatorSucceeded ==
    \E i \in RoleCalls :
        /\ calls[i].role = AggregatorAgent
        /\ ~calls[i].raised
        /\ ParsedReply(calls[i]).ok
        /\ HasKey(ParsedReply(calls[i]).d, K_final_answer)
        /\ Get(ParsedReply(calls[i]).d, K_final_answer, None) # None

\* C1 (as claimed): run_multi_agent always returns a value and never raises: an
\* exception of a remote completion call is caught inside its round.
C1_NeverRaises == pc # "raised"

\* C2 (as claimed): a run with max_rounds = N in which no round ends in an
\* error and no Aggregator invocation yields a non-null final_answer performs
\* exactly N rounds (N routing calls, N role dispatches), returns the round
\* limit sentinel, and never starts round N + 1.
C2_ExactlyMaxRounds ==
    /\ round_count <= max_rounds
    /\ (pc = "returned" /\ ~ErrorOutcome /\ ~AggregatorSucceeded) =>
            /\ ret = ErrMaxRounds
            /\ round_count = max_rounds
            /\ Cardinality(RoutingCalls) = max_rounds
            /\ Cardinality(RoleCalls) = max_rounds

\* C3 (as claimed): a run ends through the Aggregator's answer path if and only
\* if an Aggregator invocation produced a non-null final_answer.
C3_CompletedIffFinalAnswer ==
    pc = "returned" => (exit = "aggregator_answer" <=> AggregatorSucceeded)

\* The text of a reply from its first "{" to its last "}".
BraceSpan(text) ==
    IF Find(text, LBRACE, 1) = 0 THEN <<>>
    ELSE Slice(text, Find(text, LBRACE, 1), RFind(text, RBRACE))

\* The final_answer the JSON object of a reply carries (None when it carries none).
CarriedAnswer(reply) ==
    LET r == json_loads(BraceSpan(reply))
    IN  IF r.ok THEN Get(r.d, K_final_answer, None) ELSE None

\* C4 (as claimed): when round 1 selects AggregatorAgent and its response
\* carries the final_answer string s, the run ends after that round (one
\* routing call, one role call) and returns exactly s, for every s.
C4_ExactAnswer ==
    \A s \in FinalAnswers :
        (/\ Len(calls) >= 2
         /\ calls[2].role = AggregatorAgent
         /\ ~calls[2].raised
         /\ CarriedAnswer(calls[2].reply) = Str(s))
        => (/\ pc = "returned"
            /\ ret = Str(s)
            /\ Len(calls) = 2
            /\ round_count = 1)

\* The routing reply of call c did not parse as JSON.
RoutingUnparsed(c) ==
    /\ c.role = Orchestrator
    /\ ~c.raised
    /\ ~json_loads(_extract_json_string(c.reply)).ok

\* C5: if the routing response of a round does not parse as JSON, the run
\* terminates in that same round with the orchestrator error, no role call is
\* issued in that round, and the output history stays as it was before the
\* round.
C5_UnparsedRoutingStops ==
    /\ [](\A i \in 1..Len(calls) :
            RoutingUnparsed(calls[i]) =>
                /\ i = Len(calls)
                /\ pc = "returned"
                /\ ret = ErrOrchestrator
                /\ round_count = calls[i].round)
    /\ [][(Len(calls') > Len(calls) /\ RoutingUnparsed(calls'[Len(calls')])) =>
            (agent_responses' = agent_responses /\ pc' = "returned")]_vars

\* C5 happens: a routing reply of a later round failed to parse, with results
\* of earlier rounds in the history.
C5_Witness ==
    /\ calls # <<>>
    /\ RoutingUnparsed(calls[Len(calls)])
    /\ pc = "returned"
    /\ agent_responses # <<>>

\* The routing reply of call c parsed and names none of the four agents.
UnknownAgent(c) ==
    /\ c.role = Orchestrator
    /\ ~c.raised
    /\ json_loads(_extract_json_string(c.reply)).ok
    /\ Get(json_loads(_extract_json_string(c.reply)).d, K_agent, Str(<<>>))
            \notin {Str(<<a>>) : a \in AgentNames}

\* C6: if the routing decision names an agent outside the four (or has no
\* agent field), the run terminates in that round with the invalid-agent
\* error, without a role call and without appending to the output history.
C6_UnknownAgentStops ==
    /\ [](\A i \in 1..Len(calls) :
            UnknownAgent(calls[i]) =>
                /\ i = Len(calls)
                /\ round_count = calls[i].round
                /\ pc \in {"agent", "returned"}
                /\ pc = "returned" => ret = ErrInvalidAgent)
    /\ [][(pc = "agent" /\ UnknownAgent(calls[Len(calls)])) =>
            /\ pc' = "returned"
            /\ ret' = ErrInvalidAgent
            /\ calls' = calls
            /\ agent_responses' = agent_responses]_vars

\* C6 happens: a run ended on a decision with no agent field, after an
\* earlier round had recorded a result.
C6_Witness ==
    /\ calls # <<>>
    /\ UnknownAgent(calls[Len(calls)])
    /\ ~HasKey(ParsedReply(calls[Len(calls)]).d, K_agent)
    /\ pc = "returned"
    /\ exit = "invalid_agent"
    /\ agent_responses # <<>>

\* C7: the output history never holds more results than max_rounds, and no
\* more than one per round started.
C7_HistoryBounded ==
    /\ Len(agent_responses) <= max_rounds
    /\ Len(agent_responses) <= round_count

\* C7 happens: a run that filled the history up to its round limit.
C7_Witness ==
    /\ max_rounds > 1
    /\ Len(agent_responses) = max_rounds
    /\ pc = "returned"

\* The calls that put the working context in their prompt.
ContextCalls ==
    {i \in RoleCalls :
        calls[i].role \in {RetrieverAgent, SimpleFinanceAgent, CalculatorAgent}}

\* The Retriever rounds before call i whose response parsed.
RetrievedBefore(i) ==
    {j \in 1..(i - 1) :
        /\ calls[j].role = RetrieverAgent
        /\ ~calls[j].raised
        /\ ParsedReply(calls[j]).ok}

Latest(S) == CHOOSE j \in S : \A k \in S : k <= j

\* C8 (as claimed): after a Retriever round whose response parsed, every later
\* Retriever, SimpleFinance or Calculator call receives the relevant_text of
\* the most recent such round as its context, never the caller's context.
C8_ContextIsRelevantText ==
    \A i \in ContextCalls :
        RetrievedBefore(i) # {} =>
            LET d == ParsedReply(calls[Latest(RetrievedBefore(i))]).d
            IN  /\ HasKey(d, K_relevant_text)
                /\ calls[i].context = Get(d, K_relevant_text, None)
                /\ calls[i].context \notin {Str(c) : c \in Contexts}

\* The Calculator calls whose response parsed as JSON.
CalculatorParsed ==
    {i \in RoleCalls :
        /\ calls[i].role = CalculatorAgent
        /\ ~calls[i].raised
        /\ ParsedReply(calls[i]).ok}

LacksField(d) == \E f \in {K_calculation, K_result, K_explanation} : ~HasKey(d, f)

\* C9: a Calculator response that parses but lacks one of calculation, result,
\* explanation ends the run with the Calculator error and is never recorded;
\* one with the three fields is recorded as the result of its round, with a
\* result that was no string converted to its string form.
C9_CalculatorSchema ==
    \A i \in CalculatorParsed :
        LET d == ParsedReply(calls[i]).d
            r == calls[i].round
        IN  IF LacksField(d)
            THEN /\ i = Len(calls)
                 /\ pc = "returned"
                 /\ ret = ErrCalculator
                 /\ \A k \in 1..Len(agent_responses) : agent_responses[k].result # d
            ELSE /\ Len(agent_responses) >= r
                 /\ agent_responses[r].agent = CalculatorAgent
                 /\ LET rec == agent_responses[r].result
                        given == Get(d, K_result, None)
                    IN  /\ Get(rec, K_result, None).t = "str"
                        /\ Get(rec, K_result, None).v =
                                (IF given.t = "null" THEN <<"None">> ELSE given.v)
                        /\ Get(rec, K_calculation, None) = Get(d, K_calculation, None)
                        /\ Get(rec, K_explanation, None) = Get(d, K_explanation, None)

\* C9 happens: one run recorded a number result as a string and then ended on
\* a Calculator response with a field missing.
C9_Witness ==
    /\ \E i \in CalculatorParsed :
            /\ ~LacksField(ParsedReply(calls[i]).d)
            /\ Get(ParsedReply(calls[i]).d, K_result, None).t = "num"
    /\ \E i \in CalculatorParsed : LacksField(ParsedReply(calls[i]).d)

\* The string a role branch returns when its response does not parse.
ParseErrorOf(role) ==
    IF role = RetrieverAgent THEN ErrRetriever
    ELSE IF role = SimpleFinanceAgent THEN ErrSimpleFinance
    ELSE IF role = CalculatorAgent THEN ErrCalculator
    ELSE ErrAggregator

\* The role calls whose response did not parse as JSON.
RoleUnparsed ==
    {i \in RoleCalls : ~calls[i].raised /\ ~ParsedReply(calls[i]).ok}

\* C10: when the response of a role does not parse as JSON nothing propagates
\* out of run_multi_agent: the run ends there by returning the error string of
\* that role.
C10_RoleParseErrorReturns ==
    \A i \in RoleUnparsed :
        /\ i = Len(calls)
        /\ pc = "returned"
        /\ ret = ParseErrorOf(calls[i].role)

\* C10 happens: the Aggregator's response failed to parse in a later round.
C10_Witness ==
    \E i \in RoleUnparsed :
        /\ calls[i].role = AggregatorAgent
        /\ calls[i].round > 1
        /\ pc = "returned"

\* ======================================================= two runs interleaved

\* The largest max_rounds of the objects two interleaved runs are on.
TwoRunRounds == 1

\* The local variables and the log file of the run at hand, as they are
\* kept while another run has the processor.
Suspended ==
    [pc |-> pc, round_count |-> round_count, current_context |-> current_context,
     agent_responses |-> agent_responses, selected_agent |-> selected_agent,
     subtask |-> subtask, ret |-> ret, exit |-> exit, log_file |-> log_file,
     calls |-> calls]

\* The two runs are calls of run on one Minions object.
OnOneObject == other.obj = other.cur

\* SharesLog with conversation_log a class attribute: every Minions object
\* reads and writes the same list.
MutClassAttribute == TRUE

\* self.conversation_log is an attribute of the object, line 54 and line
\* 208: two runs read and write the same list exactly when they are calls
\* on the same object.
SharesLog == OnOneObject

\* Two Minions objects (or one) are constructed and a run is started on
\* each: run_multi_agent has its own current_context, agent_responses and
\* round_count per call (lines 209-211) and finds conversation_log and
\* max_rounds on its object.
InitTwo ==
    /\ max_rounds \in 0..TwoRunRounds
    /\ pc = "constructed"
    /\ round_count = 0
    /\ current_context = None
    /\ agent_responses = <<>>
    /\ conversation_log = <<>>
    /\ selected_agent = None
    /\ subtask = None
    /\ ret = None
    /\ exit = "none"
    /\ log_file = NoFile
    /\ run_max_rounds = NoArgument
    /\ calls = <<>>
    /\ \E obj \in {1, 2} :
        other = [pc |-> "constructed", round_count |-> 0, current_context |-> None,
                 agent_responses |-> <<>>, selected_agent |-> None,
                 subtask |-> None, ret |-> None, exit |-> "none",
                 log_file |-> NoFile, calls |-> <<>>,
                 cur |-> 1, obj |-> obj,
                 max_rounds |-> max_rounds, conversation_log |-> <<>>]
    /\ batch = Off /\ ex = Off /\ cs = Off /\ bm = Off /\ ch = Off

\* The interpreter takes the processor from the run at hand and gives it to
\* the other run.  Locals go with their run.  self.max_rounds and
\* self.conversation_log are found on the object of the run that resumes:
\* on one object they are what the suspended run left there, on two objects
\* they are what the resumed run's own object holds.
Switch ==
    /\ other.pc # "off"
    /\ pc' = other.pc
    /\ round_count' = other.round_count
    /\ current_context' = other.current_context
    /\ agent_responses' = other.agent_responses
    /\ selected_agent' = other.selected_agent
    /\ subtask' = other.subtask
    /\ ret' = other.ret
    /\ exit' = other.exit
    /\ log_file' = other.log_file
    /\ calls' = other.calls
    /\ max_rounds' = other.max_rounds
    /\ conversation_log' = IF SharesLog THEN conversation_log
                           ELSE other.conversation_log
    /\ other' = [f \in DOMAIN other |->
                    CASE f = "cur" -> other.obj
                      [] f = "obj" -> other.cur
                      [] f = "max_rounds" -> max_rounds
                      [] f = "conversation_log" -> conversation_log
                      [] OTHER -> Suspended[f]]
    /\ UNCHANGED <<run_max_rounds, batch, ex, cs, bm, ch>>

NextTwo ==
    \/ Next
    \/ Switch

SpecTwo == InitTwo /\ [][NextTwo]_allvars

\* What one call of a run adds to the conversation log (lines 233 and 320)
\* and to the output history (the append of its branch).
OwnLogEntry(c) ==
    IF c.raised \/ c.role = AggregatorAgent THEN <<>>
    ELSE IF c.role = Orchestrator
    THEN IF ParsedReply(c).ok
         THEN <<[type |-> "orchestrator_response", content |-> ParsedReply(c).d]>>
         ELSE <<>>
    ELSE IF ParsedReply(c).ok
            /\ (c.role = CalculatorAgent => HasRequiredFields(ParsedReply(c).d))
    THEN <<[type |-> "agent_response", content |-> <<>>]>>
    ELSE <<>>

OwnHistoryEntry(c) ==
    IF c.raised \/ c.role \in {Orchestrator, AggregatorAgent} THEN <<>>
    ELSE IF c.role = CalculatorAgent
    THEN IF ParsedReply(c).ok /\ HasRequiredFields(ParsedReply(c).d)
         THEN <<[agent |-> c.role, result |-> WithStringResult(ParsedReply(c).d)]>>
         ELSE <<[agent |-> c.role, result |-> fallback_result]>>
    ELSE IF ParsedReply(c).ok
    THEN <<[agent |-> c.role, result |-> ParsedReply(c).d]>>
    ELSE <<>>

\* The conversation log and the output history that the calls cl of one run
\* produce on their own.
RECURSIVE OwnLog(_)
OwnLog(cl) ==
    IF cl = <<>> THEN <<>>
    ELSE OwnLog(SubSeq(cl, 1, Len(cl) - 1)) \o OwnLogEntry(cl[Len(cl)])

RECURSIVE OwnHistory(_)
OwnHistory(cl) ==
    IF cl = <<>> THEN <<>>
    ELSE OwnHistory(SubSeq(cl, 1, Len(cl) - 1)) \o OwnHistoryEntry(cl[Len(cl)])

\* The working context ctx is what the calls cl of one run make it: the
\* relevant_text of the last Retriever reply that parsed, or the context the
\* run was called with when there is none.
ContextIsOwn(ctx, cl) ==
    LET parsed == {i \in 1..Len(cl) : /\ cl[i].role = RetrieverAgent
                                      /\ ~cl[i].raised
                                      /\ ParsedReply(cl[i]).ok}
    IN  IF parsed = {}
        THEN ctx \in {Str(context) : context \in Contexts}
        ELSE LET last == CHOOSE i \in parsed : \A j \in parsed : j <= i
             IN  ctx = Get(ParsedReply(cl[last]).d, K_relevant_text, Str(<<>>))

\* The conversation log the suspended run finds when it resumes.
LogOfOther == IF SharesLog THEN conversation_log ELSE other.conversation_log

\* The run at hand, and the suspended run, have started.
Started == pc # "constructed"
OtherStarted == other.pc \notin {"off", "constructed"}

\* C11 (as claimed): two interleaved runs share no mutable state, on two
\* Minions objects or on one: the output history and the conversation log
\* of each run hold the entries of its own rounds and nothing else, and the
\* log file a run writes is the log of its own rounds.
C11_RunsShareNothing ==
    /\ Started => /\ conversation_log = OwnLog(calls)
                  /\ agent_responses = OwnHistory(calls)
                  /\ ContextIsOwn(current_context, calls)
    /\ OtherStarted => /\ LogOfOther = OwnLog(other.calls)
                       /\ other.agent_responses = OwnHistory(other.calls)
                       /\ ContextIsOwn(other.current_context, other.calls)
    /\ log_file.written => Len(log_file.entries) = Len(OwnLog(calls))

\* C11 (amended): the output history and the working context of a run are
\* made by its own rounds and by nothing else however two runs interleave,
\* on two objects or on one; the conversation log of a run, and the log file
\* it writes, hold the entries of its own rounds when the two runs are on
\* two Minions objects.  On one object the two runs write one conversation
\* log.
C11_RunsOnTwoObjects ==
    /\ Started => /\ agent_responses = OwnHistory(calls)
                  /\ ContextIsOwn(current_context, calls)
    /\ OtherStarted => /\ other.agent_responses = OwnHistory(other.calls)
                       /\ ContextIsOwn(other.current_context, other.calls)
    /\ ~OnOneObject =>
        /\ Started => conversation_log = OwnLog(calls)
        /\ OtherStarted => LogOfOther = OwnLog(other.calls)
        /\ log_file.written =>
                log_file.entries = [i \in 1..Len(OwnLog(calls)) |->
                    [type |-> OwnLog(calls)[i].type,
                     content |-> IF OwnLog(calls)[i].type = "agent_response"
                                 THEN OwnHistory(calls)
                                 ELSE OwnLog(calls)[i].content]]

\* Two runs on two objects, interleaved: one has ended and written a log
\* file of two entries while the other waits in the middle of its round,
\* with its routing decision in its own log.
C11_Witness ==
    /\ ~OnOneObject
    /\ log_file.written
    /\ Len(log_file.entries) = 2
    /\ other.pc = "agent"
    /\ Len(other.conversation_log) = 1
    /\ Len(other.calls) = 1

\* C13 (as claimed): the log file that run writes when it is given a
\* log_path holds the final answer that run returned (stated for the runs
\* that return the answer of the Aggregator).
AnswerInEntry(entry) ==
    IF entry.type = "orchestrator_response"
    THEN \E i \in 1..Len(entry.content) : entry.content[i][2] = ret
    ELSE \E j \in 1..Len(entry.content) :
            \E i \in 1..Len(entry.content[j].result) :
                entry.content[j].result[i][2] = ret

C13_LogHoldsFinalAnswer ==
    (log_file.written /\ exit = "aggregator_answer") =>
        \E n \in 1..Len(log_file.entries) : AnswerInEntry(log_file.entries[n])


\* =========================================== _extract_json_string by itself

\* The longest response handed to _extract_json_string.
MaxResponse == 4

\* The symbols of a response: the braces, the dollar sign, the newline, the
\* fence, the word json, the backslash-bracket pair and a letter.
ResponseSymbols ==
    {LBRACE, RBRACE, DOLLAR, NL, FENCE, JSONWORD, LATEXOPEN, LATEXCLOSE, LETTER}

\* The sequences of at most n symbols.
UpTo(n, symbols) == UNION {[1..m -> symbols] : m \in 0..n}

\* No run of run_multi_agent in the specification at hand.
RunOff ==
    /\ max_rounds = 0
    /\ pc = "off"
    /\ round_count = 0
    /\ current_context = None
    /\ agent_responses = <<>>
    /\ conversation_log = <<>>
    /\ selected_agent = None
    /\ subtask = None
    /\ ret = None
    /\ exit = "none"
    /\ log_file = NoFile
    /\ run_max_rounds = NoArgument
    /\ calls = <<>>

\* A str response, as chat returns it, is about to be handed over.
InitExtract ==
    /\ RunOff
    /\ \E response \in UpTo(MaxResponse, ResponseSymbols) :
        ex = [pc |-> "called", response |-> response, result |-> <<>>]
    /\ other = Off /\ batch = Off /\ cs = Off /\ bm = Off /\ ch = Off

\* response_text = self._extract_json_string(response), lines 227, 246, 263,
\* 279 and 308
Extract ==
    /\ ex.pc = "called"
    /\ ex' = [ex EXCEPT !.pc = "returned",
                        !.result = _extract_json_string(ex.response)]
    /\ UNCHANGED <<vars, other, batch, cs, bm, ch>>

SpecExtract == InitExtract /\ [][Extract]_allvars

\* The response holds a "{" and, later, a "}".
HasBraceSpan(text) ==
    \E i, j \in 1..Len(text) : i < j /\ text[i] = LBRACE /\ text[j] = RBRACE

HasPairOnLine(text, open, close) ==
    \E i, j \in 1..Len(text) :
        /\ i < j
        /\ text[i] = open
        /\ text[j] = close
        /\ \A k \in (i + 1)..(j - 1) : text[k] # NL

\* Nothing in the response that the code takes for a fence or a formula.
Plain(text) ==
    /\ \A i \in 1..Len(text) : text[i] # FENCE
    /\ ~HasPairOnLine(text, DOLLAR, DOLLAR)
    /\ ~HasPairOnLine(text, LATEXOPEN, LATEXCLOSE)

MaxDocLen == 5

\* The largest max_chunk_size and the largest overlap of a call.
MaxChunkSize == 3

\* The symbols of a document: an upper-case letter, a full stop (one of the
\* characters ".", "!" and "?" that end a sentence) and a blank.
UPPER == "A"
PERIOD == "."
DocSymbols == {UPPER, PERIOD, SPACE}

\* The min_chunk_size arguments of create_chunks.
MinChunkSizes == {0, 2}

\* The loop iterations of a call that are followed: a call that has made
\* more is a call that does not come back for any document of MaxDocLen
\* symbols.
MaxIterations == MaxDocLen + 1

\* An index of a slice as Python reads it against a sequence of n items: a
\* negative index counts from the end, and both ends are cut to 0..n.
SliceIndex(x, n) ==
    IF x < 0 THEN (IF x + n < 0 THEN 0 ELSE x + n)
    ELSE IF x > n THEN n ELSE x

\* s[i:j]
PySlice(s, i, j) ==
    LET lo == SliceIndex(i, Len(s))
        hi == SliceIndex(j, Len(s))
    IN  IF lo < hi THEN SubSeq(s, lo + 1, hi) ELSE <<>>

\* s[i:]
PySliceFrom(s, i) ==
    LET lo == SliceIndex(i, Len(s))
    IN  IF lo < Len(s) THEN SubSeq(s, lo + 1, Len(s)) ELSE <<>>

\* Stride with the overlap forgotten: the next chunk starts where this one
\* ends.
MutStrideWithoutOverlap(max_chunk_size, overlap) == max_chunk_size

\* Stride with the sizes dropped: the next chunk starts where this one does.
MutStrideStandsStill(max_chunk_size, overlap) == 0

\* start += max_chunk_size - overlap, chunking.py line 15
Stride(max_chunk_size, overlap) == max_chunk_size - overlap

\* The end of the blanks that start at text[p].
RECURSIVE BlanksEnd(_, _)
BlanksEnd(text, p) ==
    IF p < Len(text) /\ text[p + 1] \in Whitespace THEN BlanksEnd(text, p + 1) ELSE p

\* The pattern (?<=[.!?])\s+(?=[A-Z]) of line 239 matches at p: a full stop
\* before p, blanks from p on, and an upper-case letter after the blanks.
SentenceBreakAt(text, p) ==
    /\ p > 1
    /\ p <= Len(text)
    /\ text[p - 1] = PERIOD
    /\ text[p] \in Whitespace
    /\ BlanksEnd(text, p) < Len(text)
    /\ text[BlanksEnd(text, p) + 1] = UPPER

\* re.split(pattern, text) from position from on: the pieces between the
\* matches, left to right.
RECURSIVE SplitSentencesFrom(_, _)
SplitSentencesFrom(text, from) ==
    IF \E p \in from..Len(text) : SentenceBreakAt(text, p)
    THEN LET p == CHOOSE q \in from..Len(text) :
                    /\ SentenceBreakAt(text, q)
                    /\ \A r \in from..(q - 1) : ~SentenceBreakAt(text, r)
         IN  <<Slice(text, from, p - 1)>>
                \o SplitSentencesFrom(text, BlanksEnd(text, p) + 1)
    ELSE <<Slice(text, from, Len(text))>>

\* [s.strip() for s in sentences if s.strip()], line 240
RECURSIVE StrippedNonEmpty(_)
StrippedNonEmpty(pieces) ==
    IF pieces = <<>> THEN <<>>
    ELSE (IF Strip(Head(pieces)) = <<>> THEN <<>> ELSE <<Strip(Head(pieces))>>)
            \o StrippedNonEmpty(Tail(pieces))

\* split_into_sentences, lines 229-240
split_into_sentences(text) == StrippedNonEmpty(SplitSentencesFrom(text, 1))

\* ' '.join(parts)
RECURSIVE JoinWithBlank(_)
JoinWithBlank(parts) ==
    IF parts = <<>> THEN <<>>
    ELSE IF Len(parts) = 1 THEN parts[1]
    ELSE parts[1] \o <<SPACE>> \o JoinWithBlank(Tail(parts))

\* if len(chunk) >= min_chunk_size: chunks.append(chunk), lines 273-274 and
\* 289-290
AppendIfLongEnough(chunks, chunk, min_chunk_size) ==
    IF Len(chunk) >= min_chunk_size THEN Append(chunks, chunk) ELSE chunks

\* A splitter is called with a document and its size parameters; the code
\* checks none of them, so every integer of the range is an argument.
InitChunk ==
    /\ RunOff
    /\ \E fn \in {"chunk_by_section", "create_chunks"},
          doc \in UpTo(MaxDocLen, DocSymbols),
          max_chunk_size \in (-1)..MaxChunkSize,
          overlap \in (-1)..MaxChunkSize,
          min_chunk_size \in MinChunkSizes :
        /\ fn = "chunk_by_section" => min_chunk_size = 0
        /\ cs = [fn |-> fn, pc |-> "called", doc |-> doc,
                 max_chunk_size |-> max_chunk_size, overlap |-> overlap,
                 min_chunk_size |-> min_chunk_size,
                 start |-> 0, chunks |-> <<>>, iterations |-> 0]
    /\ other = Off /\ batch = Off /\ ex = Off /\ bm = Off /\ ch = Off

\* chunk_by_section, lines 10-11: sections = [], start = 0
SectionEnter ==
    /\ cs.fn = "chunk_by_section"
    /\ cs.pc = "called"
    /\ cs' = [cs EXCEPT !.pc = "loop", !.start = 0, !.chunks = <<>>]
    /\ UNCHANGED <<vars, other, batch, ex, bm, ch>>

\* One iteration of the while loop of chunk_by_section, lines 12-15
SectionLoop ==
    /\ cs.fn = "chunk_by_section"
    /\ cs.pc = "loop"
    /\ cs.start < Len(cs.doc)
    /\ cs.iterations < MaxIterations
    /\ LET end == cs.start + cs.max_chunk_size
       IN  cs' = [cs EXCEPT
                    !.chunks = Append(cs.chunks, PySlice(cs.doc, cs.start, end)),
                    !.start = cs.start + Stride(cs.max_chunk_size, cs.overlap),
                    !.iterations = cs.iterations + 1]
    /\ UNCHANGED <<vars, other, batch, ex, bm, ch>>

\* The loop of chunk_by_section ends: return sections, line 16
SectionReturn ==
    /\ cs.fn = "chunk_by_section"
    /\ cs.pc = "loop"
    /\ ~(cs.start < Len(cs.doc))
    /\ cs' = [cs EXCEPT !.pc = "returned"]
    /\ UNCHANGED <<vars, other, batch, ex, bm, ch>>

\* create_chunks, lines 260-264: a text of at most max_chunk_size characters
\* comes back as the only chunk
CreateEnter ==
    /\ cs.fn = "create_chunks"
    /\ cs.pc = "called"
    /\ IF Len(cs.doc) <= cs.max_chunk_size
       THEN cs' = [cs EXCEPT !.pc = "returned", !.chunks = <<cs.doc>>]
       ELSE cs' = [cs EXCEPT !.pc = "loop", !.start = 0, !.chunks = <<>>]
    /\ UNCHANGED <<vars, other, batch, ex, bm, ch>>

\* One iteration of the while loop of create_chunks, lines 266-290
CreateLoop ==
    /\ cs.fn = "create_chunks"
    /\ cs.pc = "loop"
    /\ cs.start < Len(cs.doc)
    /\ cs.iterations < MaxIterations
    /\ LET end == cs.start + cs.max_chunk_size
           sentences == split_into_sentences(PySlice(cs.doc, cs.start, end))
       IN  IF end >= Len(cs.doc)
           THEN cs' = [cs EXCEPT
                        !.chunks = AppendIfLongEnough(cs.chunks,
                                        PySliceFrom(cs.doc, cs.start),
                                        cs.min_chunk_size),
                        !.iterations = cs.iterations + 1,
                        !.pc = "returned"]
           ELSE IF Len(sentences) > 1
           THEN LET chunk == JoinWithBlank(SubSeq(sentences, 1, Len(sentences) - 1))
                IN  cs' = [cs EXCEPT
                            !.chunks = AppendIfLongEnough(cs.chunks, chunk,
                                                          cs.min_chunk_size),
                            !.start = cs.start + Len(chunk),
                            !.iterations = cs.iterations + 1]
           ELSE cs' = [cs EXCEPT
                        !.chunks = AppendIfLongEnough(cs.chunks,
                                        PySlice(cs.doc, cs.start, end),
                                        cs.min_chunk_size),
                        !.start = end - cs.overlap,
                        !.iterations = cs.iterations + 1]
    /\ UNCHANGED <<vars, other, batch, ex, bm, ch>>

\* The while condition of create_chunks fails: return chunks, line 292
CreateReturn ==
    /\ cs.fn = "create_chunks"
    /\ cs.pc = "loop"
    /\ ~(cs.start < Len(cs.doc))
    /\ cs' = [cs EXCEPT !.pc = "returned"]
    /\ UNCHANGED <<vars, other, batch, ex, bm, ch>>

NextChunk ==
    \/ SectionEnter
    \/ SectionLoop
    \/ SectionReturn
    \/ CreateEnter
    \/ CreateLoop
    \/ CreateReturn

SpecChunk == InitChunk /\ [][NextChunk]_allvars

\* max_chunk_size > 0 and 0 <= overlap < max_chunk_size
ValidSizes == cs.max_chunk_size > 0 /\ 0 <= cs.overlap /\ cs.overlap < cs.max_chunk_size

SectionReturned == cs.pc = "returned" /\ cs.fn = "chunk_by_section"
CreateReturned == cs.pc = "returned" /\ cs.fn = "create_chunks"

\* The first chunk followed by every later chunk without its first overlap
\* characters.
RECURSIVE Reconstruct(_, _)
Reconstruct(chunks, overlap) ==
    IF chunks = <<>> THEN <<>>
    ELSE IF Len(chunks) = 1 THEN chunks[1]
    ELSE Reconstruct(SubSeq(chunks, 1, Len(chunks) - 1), overlap)
            \o PySliceFrom(chunks[Len(chunks)], overlap)

\* C15: for every document and every max_chunk_size > 0 and overlap with
\* 0 <= overlap < max_chunk_size, the chunks of chunk_by_section, the first
\* overlap characters of every chunk but the first removed, concatenate to
\* the document.
C15_ChunksReconstructDocument ==
    (SectionReturned /\ ValidSizes) => Reconstruct(cs.chunks, cs.overlap) = cs.doc

\* A document of five characters cut with an overlap of two into chunks of
\* which the last is shorter than the overlap.
C15_Witness ==
    /\ SectionReturned
    /\ ValidSizes
    /\ Len(cs.doc) = MaxDocLen
    /\ cs.overlap = 2
    /\ Len(cs.chunks) >= 3
    /\ Len(cs.chunks[Len(cs.chunks)]) < cs.overlap
    /\ \E i, j \in 1..Len(cs.doc) : cs.doc[i] # cs.doc[j]

\* C16 (as claimed): every chunk of chunk_by_section but the last has
\* max_chunk_size characters, and every chunk after the first begins with
\* the last overlap characters of the chunk before it.
C16_ExactOverlap ==
    (SectionReturned /\ ValidSizes) =>
        \A i \in 1..(Len(cs.chunks) - 1) :
            /\ Len(cs.chunks[i]) = cs.max_chunk_size
            /\ Len(cs.chunks[i + 1]) >= cs.overlap
            /\ PySlice(cs.chunks[i + 1], 0, cs.overlap)
                 = PySliceFrom(cs.chunks[i], Len(cs.chunks[i]) - cs.overlap)

\* C17 (as claimed): with valid sizes, chunk_by_section and create_chunks
\* return no empty chunk for a document that is not empty, and the empty
\* sequence for the empty document.
C17_NoEmptyChunk ==
    (cs.pc = "returned" /\ ValidSizes) =>
        IF cs.doc = <<>>
        THEN cs.chunks = <<>>
        ELSE \A i \in 1..Len(cs.chunks) : cs.chunks[i] # <<>>

\* C18 (as claimed): chunk_by_section with max_chunk_size <= 0, overlap < 0
\* or overlap >= max_chunk_size fails with an error: it makes no pass of its
\* loop and returns no list.
C18_InvalidSizesRejected ==
    (cs.fn = "chunk_by_section" /\ ~ValidSizes) =>
        (cs.pc # "returned" /\ cs.iterations = 0)

\* How often sym occurs in text, and in the chunks together.
RECURSIVE Count(_, _)
Count(sym, text) ==
    IF text = <<>> THEN 0
    ELSE (IF Head(text) = sym THEN 1 ELSE 0) + Count(sym, Tail(text))

RECURSIVE CountInChunks(_, _)
CountInChunks(sym, chunks) ==
    IF chunks = <<>> THEN 0
    ELSE Count(sym, Head(chunks)) + CountInChunks(sym, Tail(chunks))

\* C19 (as claimed): create_chunks drops nothing of its input, whatever
\* max_chunk_size, overlap and min_chunk_size are (stated for the valid
\* sizes): every letter and every full stop of the text is in the returned
\* chunks at least as often as in the text.
C19_NothingDropped ==
    (CreateReturned /\ ValidSizes) =>
        \A sym \in {UPPER, PERIOD} :
            Count(sym, cs.doc) <= CountInChunks(sym, cs.chunks)

\* ========================================================= the batch drivers

\* The most examples of a dataset.
MaxExamples == 3

\* The financebench_id values of the examples.
ExampleIds == {<<"id_1">>, <<"id_2">>, <<"id_3">>}

\* What the call inside the try block of a driver does for one example:
\* Minions.run returns what run_multi_agent returns (an answer, None, an
\* error string) or lets an exception through; the completion call of
\* baseline.py returns the content of the message or raises.
CallOutcomes ==
    {[raised |-> FALSE, value |-> v] :
        v \in {Str(<<"7">>), None, ErrMaxRounds}}
    \cup {[raised |-> TRUE, value |-> Str(<<"Connection error.">>)]}

\* f"Error: {str(e)}", minions.py line 374
ErrorOf(e) == Str(<<"Error: ">> \o e.v)

\* "Error", baseline.py line 65
BaselineError == Str(<<"Error">>)

\* Handled with the try block left out: the exception ends the script.
MutUncaught(out) == ~out.raised

\* try ... except Exception, minions.py lines 368-374 and baseline.py lines
\* 51-65: the exception of the call is caught and the loop goes on.
Handled(out) == TRUE

\* The dataset is loaded and the dictionary of predictions is empty,
\* minions.py lines 349-358 and baseline.py lines 12-22.
InitBatch ==
    /\ RunOff
    /\ \E driver \in {"minions", "baseline"},
          dataset \in UpTo(MaxExamples, ExampleIds) :
        batch = [driver |-> driver, pc |-> "loop", dataset |-> dataset,
                 done |-> 0, predicted_answers |-> <<>>, outcomes |-> <<>>,
                 saved |-> <<>>]
    /\ other = Off /\ ex = Off /\ cs = Off /\ bm = Off /\ ch = Off

\* What one pass of the loop does with the outcome of its call.
Record(prediction, out) ==
    IF Handled(out)
    THEN batch' = [batch EXCEPT
                    !.done = batch.done + 1,
                    !.outcomes = Append(batch.outcomes, out),
                    !.predicted_answers =
                        Put(batch.predicted_answers,
                            batch.dataset[batch.done + 1], prediction)]
    ELSE batch' = [batch EXCEPT !.pc = "crashed",
                                !.outcomes = Append(batch.outcomes, out)]

\* One pass of the loop of minions.py, lines 360-374
MinionsExample ==
    /\ batch.driver = "minions"
    /\ batch.pc = "loop"
    /\ batch.done < Len(batch.dataset)
    /\ \E out \in CallOutcomes :
        Record(IF out.raised THEN ErrorOf(out.value) ELSE out.value, out)
    /\ UNCHANGED <<vars, other, ex, cs, bm, ch>>

\* One pass of the loop of baseline.py, lines 24-65
BaselineExample ==
    /\ batch.driver = "baseline"
    /\ batch.pc = "loop"
    /\ batch.done < Len(batch.dataset)
    /\ \E out \in CallOutcomes :
        Record(IF out.raised THEN BaselineError ELSE out.value, out)
    /\ UNCHANGED <<vars, other, ex, cs, bm, ch>>

\* json.dump of the predictions after the loop, minions.py lines 377-378 and
\* baseline.py lines 68-69
SavePredictions ==
    /\ batch.pc = "loop"
    /\ batch.done = Len(batch.dataset)
    /\ batch' = [batch EXCEPT !.pc = "saved", !.saved = batch.predicted_answers]
    /\ UNCHANGED <<vars, other, ex, cs, bm, ch>>

NextBatch ==
    \/ MinionsExample
    \/ BaselineExample
    \/ SavePredictions

SpecBatch == InitBatch /\ [][NextBatch]_allvars

\* The last example processed so far that has the identifier id.
LastWith(id) ==
    CHOOSE j \in 1..batch.done :
        /\ batch.dataset[j] = id
        /\ \A m \in (j + 1)..batch.done : batch.dataset[m] # id

\* The prediction a driver records for an outcome.
PredictionFor(out) ==
    IF ~out.raised THEN out.value
    ELSE IF batch.driver = "minions" THEN ErrorOf(out.value) ELSE BaselineError

MaxChunks == 3

\* The largest score of a chunk.  BM25Okapi.get_scores is the library's: a
\* call of it is an array with one score per chunk, and any array is taken.
MaxScore == 2

\* The permutations of 1..n.
Orderings(n) == {p \in [1..n -> 1..n] : \A i, j \in 1..n : i # j => p[i] # p[j]}

\* np.argsort(scores): the positions in ascending order of score.  The
\* default sort of numpy is not a stable one, so chunks of equal score come
\* in an order the build chooses.
ArgSorts(scores) ==
    {p \in Orderings(Len(scores)) :
        \A i, j \in 1..Len(scores) : i < j => scores[p[i]] <= scores[p[j]]}

\* a[::-1]
Reversed(a) == [i \in 1..Len(a) |-> a[Len(a) + 1 - i]]

\* np.argsort(scores)[-k:][::-1], line 47: -k is 0 when k is 0, and the
\* slice from 0 is the whole array.
TopK(order, k) == Reversed(PySliceFrom(order, -k))

\* bm25_retrieve_top_k_chunks is called with a list of chunks that is not
\* empty, the scores the library gives them against the query, and k.
InitRank ==
    /\ RunOff
    /\ \E n \in 1..MaxChunks :
        \E scores \in [1..n -> 0..MaxScore], k \in 0..(MaxChunks + 1) :
            bm = [pc |-> "called", chunks |-> [i \in 1..n |-> i],
                  scores |-> scores, k |-> k, top_k_indices |-> <<>>,
                  result |-> <<>>]
    /\ other = Off /\ batch = Off /\ ex = Off /\ cs = Off /\ ch = Off

\* bm25_retrieve_top_k_chunks, lines 43-50
Retrieve ==
    /\ bm.pc = "called"
    /\ \E order \in ArgSorts(bm.scores) :
        LET top_k_indices == TopK(order, bm.k)
        IN  bm' = [bm EXCEPT
                    !.pc = "returned",
                    !.top_k_indices = top_k_indices,
                    !.result = [i \in 1..Len(top_k_indices) |->
                                    bm.chunks[top_k_indices[i]]]]
    /\ UNCHANGED <<vars, other, batch, ex, cs, ch>>

SpecRank == InitRank /\ [][Retrieve]_allvars

\* The positions of the input that came back, and those that did not.
ReturnedPositions == {bm.top_k_indices[i] : i \in 1..Len(bm.top_k_indices)}
LeftPositions == (1..Len(bm.chunks)) \ ReturnedPositions

\* C20 (as claimed): for a list of chunks that is not empty and every k,
\* bm25_retrieve_top_k_chunks returns k chunks when k <= len(chunks) and all
\* of them when k > len(chunks); no position of the input comes back twice,
\* no chunk left out scores higher than a chunk returned, and the chunks
\* come in non-increasing order of score.
C20_ExactlyKBest ==
    bm.pc = "returned" =>
        /\ Len(bm.result) = IF bm.k <= Len(bm.chunks) THEN bm.k ELSE Len(bm.chunks)
        /\ Cardinality(ReturnedPositions) = Len(bm.top_k_indices)
        /\ \A i \in ReturnedPositions, j \in LeftPositions :
                bm.scores[i] >= bm.scores[j]
        /\ \A i \in 1..(Len(bm.top_k_indices) - 1) :
                bm.scores[bm.top_k_indices[i]] >= bm.scores[bm.top_k_indices[i + 1]]

\* C21 (as claimed): for k = 0 bm25_retrieve_top_k_chunks returns an empty
\* sequence, whatever the query scores of a list of chunks that is not empty.
C21_ZeroKReturnsNothing ==
    (bm.pc = "returned" /\ bm.k = 0 /\ Len(bm.chunks) >= 1) => bm.result = <<>>

\* ------------------------------------- the ranker on texts, and its tool

\* The chunk texts of the ranking scenario, and a chunk of whitespace.  A
\* symbol is one word here: "Revenue" and "revenue" are two words, as they are
\* two strings to the code.
RevenueGrew == <<"Revenue", SPACE, "grew", SPACE, "10%">>
WeatherText == <<"Unrelated", SPACE, "text", SPACE, "about", SPACE, "weather">>
RevenueDeclined == <<"Revenue", SPACE, "declined">>
BlankText == <<SPACE>>
ChunkTexts == {RevenueGrew, WeatherText, RevenueDeclined, BlankText}

\* The queries: the one of the scenario, a word the chunks hold, and none.
RevenueIncrease == <<"revenue", SPACE, "increase">>
Queries == {RevenueIncrease, <<"Revenue">>, <<>>}

\* The chunk lists a caller passes: up to MaxChunks texts in any order, the
\* empty list among them.
ChunkLists == UpTo(MaxChunks, ChunkTexts)

\* str.split(): the maximal runs of symbols that are not whitespace, from
\* position i on, cur being the run read so far.
RECURSIVE SplitFrom(_, _, _)
SplitFrom(s, i, cur) ==
    IF i > Len(s) THEN (IF cur = <<>> THEN <<>> ELSE <<cur>>)
    ELSE IF s[i] \in Whitespace
         THEN (IF cur = <<>> THEN <<>> ELSE <<cur>>) \o SplitFrom(s, i + 1, <<>>)
         ELSE SplitFrom(s, i + 1, Append(cur, s[i]))

\* text.split(), lines 39 and 43
Split(s) == SplitFrom(s, 1, <<>>)

\* context.split("\n\n"): the pieces between the occurrences of two newlines,
\* read left to right; a text with no occurrence is one piece.
RECURSIVE SplitOnBlankLine(_, _, _)
SplitOnBlankLine(s, i, cur) ==
    IF i > Len(s) THEN <<cur>>
    ELSE IF i < Len(s) /\ s[i] = NL /\ s[i + 1] = NL
         THEN <<cur>> \o SplitOnBlankLine(s, i + 2, <<>>)
         ELSE SplitOnBlankLine(s, i + 1, Append(cur, s[i]))

\* "\n\n".join(parts)
RECURSIVE JoinWithBlankLine(_)
JoinWithBlankLine(parts) ==
    IF parts = <<>> THEN <<>>
    ELSE IF Len(parts) = 1 THEN parts[1]
    ELSE parts[1] \o <<NL, NL>> \o JoinWithBlankLine(Tail(parts))

\* The contexts a caller passes to the tool: paragraphs with a blank line
\* between them, the empty context among them.
ToolContexts == {JoinWithBlankLine(parts) : parts \in ChunkLists}

\* [{"text": chunk} for chunk in context.split("\n\n") if chunk.strip()],
\* retriever_tool.py line 6.  A chunk is written as its text.
NonBlankParagraphs(context) ==
    SelectSeq(SplitOnBlankLine(context, 1, <<>>), LAMBDA p : Strip(p) # <<>>)

\* BM25Okapi(tokenized_texts), line 40, is the library's constructor.  It
\* divides the number of tokens by the number of texts (the average length)
\* and the sum of the word weights by the number of distinct words: a list of
\* no texts, and a list of texts with no token, is a division by zero.
IndexRaises(tokenized_texts) ==
    \A i \in 1..Len(tokenized_texts) : tokenized_texts[i] = <<>>

\* The text holds a token of the query.
Matches(tokenized_query, tokens) ==
    \E i \in 1..Len(tokenized_query), j \in 1..Len(tokens) :
        tokenized_query[i] = tokens[j]

\* bm25.get_scores(tokenized_query), line 44, is the library's too: the score
\* of a text is the sum, over the tokens of the query, of the weight of the
\* token times its frequency term in the text.  A text that holds no token of
\* the query scores 0; the score of any other text is a number the weights
\* decide (negative, zero or positive), and two texts of the same tokens score
\* the same.
GetScores(tokenized_query, tokenized_texts) ==
    {scores \in [1..Len(tokenized_texts) -> (-1)..MaxScore] :
        /\ \A i \in 1..Len(tokenized_texts) :
            ~Matches(tokenized_query, tokenized_texts[i]) => scores[i] = 0
        /\ \A i, j \in 1..Len(tokenized_texts) :
            tokenized_texts[i] = tokenized_texts[j] => scores[i] = scores[j]}

\* bm25_retrieve_top_k_chunks(query, chunks, k), lines 38-50: the exception
\* of the constructor leaves the function, or the chunks at the top k
\* positions are returned.
Bm25RetrieveTopK(query, chunks, k) ==
    LET tokenized_texts == [i \in 1..Len(chunks) |-> Split(chunks[i])]
        tokenized_query == Split(query)
    IN  IF IndexRaises(tokenized_texts)
        THEN bm' = [bm EXCEPT !.pc = "raised", !.chunks = chunks,
                              !.error = "ZeroDivisionError"]
        ELSE \E scores \in GetScores(tokenized_query, tokenized_texts) :
                \E order \in ArgSorts(scores) :
                    LET top_k_indices == TopK(order, k)
                    IN  bm' = [bm EXCEPT
                                !.pc = "returned",
                                !.chunks = chunks,
                                !.scores = scores,
                                !.top_k_indices = top_k_indices,
                                !.result = [i \in 1..Len(top_k_indices) |->
                                                chunks[top_k_indices[i]]]]

\* A call of bm25_retrieve_top_k_chunks on a list of chunks, or of
\* retrieve_relevant_context on a context, with a query and k.
InitQuery ==
    /\ RunOff
    /\ \E query \in Queries, k \in 0..(MaxChunks + 1) :
        \/ \E chunks \in ChunkLists :
            bm = [pc |-> "called", fn |-> "bm25_retrieve_top_k_chunks",
                  query |-> query, context |-> <<>>, chunks |-> chunks,
                  k |-> k, scores |-> <<>>, top_k_indices |-> <<>>,
                  result |-> <<>>, error |-> "none"]
        \/ \E context \in ToolContexts :
            bm = [pc |-> "called", fn |-> "retrieve_relevant_context",
                  query |-> query, context |-> context, chunks |-> <<>>,
                  k |-> k, scores |-> <<>>, top_k_indices |-> <<>>,
                  result |-> <<>>, error |-> "none"]
    /\ other = Off /\ batch = Off /\ ex = Off /\ cs = Off /\ ch = Off

\* bm25_retrieve_top_k_chunks, lines 20-50
RetrieveTopKChunks ==
    /\ bm.pc = "called"
    /\ bm.fn = "bm25_retrieve_top_k_chunks"
    /\ Bm25RetrieveTopK(bm.query, bm.chunks, bm.k)
    /\ UNCHANGED <<vars, other, batch, ex, cs, ch>>

\* retrieve_relevant_context, retriever_tool.py lines 3-7
retrieve_relevant_context ==
    /\ bm.pc = "called"
    /\ bm.fn = "retrieve_relevant_context"
    /\ Bm25RetrieveTopK(bm.query, NonBlankParagraphs(bm.context), bm.k)
    /\ UNCHANGED <<vars, other, batch, ex, cs, ch>>

NextQuery == RetrieveTopKChunks \/ retrieve_relevant_context

SpecQuery == InitQuery /\ [][NextQuery]_allvars

\* The call is over: it returned or it raised.
QueryOver == bm.pc \in {"returned", "raised"}

\* C22 (as claimed): when the list of chunks is empty (for the tool: when the
\* context has no paragraph that is not blank), the call returns an empty
\* result and raises nothing, for every query and every k.
C22_EmptyListReturnsNothing ==
    (QueryOver /\ bm.chunks = <<>>) => (bm.pc = "returned" /\ bm.result = <<>>)

\* The positions 1..n by descending score, chunks of equal score in the order
\* of the input: the ranking a stable sort gives.
StableDescending(scores) ==
    CHOOSE p \in Orderings(Len(scores)) :
        \A i, j \in 1..Len(scores) :
            i < j => \/ scores[p[i]] > scores[p[j]]
                     \/ scores[p[i]] = scores[p[j]] /\ p[i] < p[j]

\* C23 (as claimed): of two chunks of equal score the one earlier in the input
\* list is ranked first and is the one kept when only one of them fits in the
\* top k, so that the positions returned are a function of the scores and k:
\* the first k of the stable descending ranking (stated for k >= 1).
C23_TiesKeepInputOrder ==
    (bm.pc = "returned" /\ bm.k >= 1) =>
        bm.top_k_indices
            = SubSeq(StableDescending(bm.scores), 1,
                     IF bm.k <= Len(bm.chunks) THEN bm.k ELSE Len(bm.chunks))

\* The call of the scenario: the query "revenue increase", k = 1 and the three
\* chunks of the scenario in some order.
RevenueScenario ==
    /\ bm.fn = "bm25_retrieve_top_k_chunks"
    /\ bm.query = RevenueIncrease
    /\ bm.k = 1
    /\ Len(bm.chunks) = 3
    /\ {bm.chunks[i] : i \in 1..3} = {RevenueGrew, WeatherText, RevenueDeclined}

\* C24 (as claimed): in the scenario the call returns one chunk, which is one
\* of the two chunks that mention revenue and never the chunk about the
\* weather, in whatever order the three chunks are passed.
C24_NeverTheWeatherChunk ==
    (QueryOver /\ RevenueScenario) =>
        /\ bm.pc = "returned"
        /\ Len(bm.result) = 1
        /\ bm.result[1] \in {RevenueGrew, RevenueDeclined}

\* A Minions object is constructed and run is called on it with a max_rounds
\* argument, or with none as the driver calls it (line 369).
InitRun ==
    /\ max_rounds \in 0..MaxRounds
    /\ run_max_rounds \in RunArguments
    /\ pc = "constructed"
    /\ round_count = 0
    /\ current_context = None
    /\ agent_responses = <<>>
    /\ conversation_log = <<>>
    /\ selected_agent = None
    /\ subtask = None
    /\ ret = None
    /\ exit = "none"
    /\ log_file = NoFile
    /\ calls = <<>>
    /\ other = Off /\ batch = Off /\ ex = Off /\ cs = Off /\ bm = Off /\ ch = Off

SpecRun == InitRun /\ [][Next]_allvars

\* C25 (as claimed): a run started by run(..., max_rounds = M) performs at
\* most M rounds: at most M routing decisions are asked for and the round
\* counter never passes M.
C25_ArgumentBoundsRounds ==
    run_max_rounds.given =>
        /\ round_count <= run_max_rounds.value
        /\ Cardinality({i \in 1..Len(calls) : calls[i].role = Orchestrator})
             <= run_max_rounds.value

\* The agent_response entries of a log as json.dump reads it, in order.
AgentResponseEntries(entries) ==
    SelectSeq(entries, LAMBDA e : e.type = "agent_response")

\* C26 (as claimed): the agent_response entry appended after round r holds
\* the role outputs of rounds 1..r and no output of a later round, in the log
\* in memory at every moment of the run and in the file run writes at the end.
C26_LogKeepsRoundHistory ==
    LET logged == AgentResponseEntries(Dumped(conversation_log))
        filed == AgentResponseEntries(log_file.entries)
    IN  /\ \A r \in 1..Len(logged) :
            logged[r].content = SubSeq(agent_responses, 1, r)
        /\ log_file.written =>
            \A r \in 1..Len(filed) :
                filed[r].content = SubSeq(agent_responses, 1, r)

\* The calls of chunk_by_section alone, under the scheduling of a sequential
\* program: a call that can take a step takes it.
InitSection == InitChunk /\ cs.fn = "chunk_by_section"

NextSection ==
    \/ SectionEnter
    \/ SectionLoop
    \/ SectionReturn

SpecSectionFair ==
    InitSection /\ [][NextSection]_allvars /\ WF_allvars(NextSection)

\* The least number of strides that cover n characters.
CeilDiv(n, stride) == (n + stride - 1) \div stride

\* chunk_by_section is running or has returned, with max_chunk_size > 0 and
\* 0 <= overlap < max_chunk_size.
ValidSectionCall == cs.fn = "chunk_by_section" /\ ValidSizes

\* C27: for every document and every max_chunk_size > 0 and overlap with
\* 0 <= overlap < max_chunk_size, chunk_by_section returns, and what it
\* returns is ceil(len(D) / (max_chunk_size - overlap)) chunks, chunk i
\* (from 0) being the max_chunk_size characters of the document from offset
\* i * (max_chunk_size - overlap) on, or as many as are left.
C27_CountAndOffsets ==
    /\ [](ValidSectionCall /\ cs.pc = "returned" =>
            LET stride == cs.max_chunk_size - cs.overlap
            IN  /\ Len(cs.chunks) = CeilDiv(Len(cs.doc), stride)
                /\ \A i \in 0..(Len(cs.chunks) - 1) :
                    cs.chunks[i + 1]
                        = PySlice(cs.doc, i * stride, i * stride + cs.max_chunk_size))
    /\ (ValidSectionCall ~> cs.pc = "returned")

\* A document of five characters cut with a stride of two, which does not
\* divide five, into three chunks, and with a stride of one into five.
C27_Witness ==
    /\ ValidSectionCall
    /\ cs.pc = "returned"
    /\ Len(cs.doc) = MaxDocLen
    /\ cs.max_chunk_size = MaxChunkSize
    /\ cs.overlap = 1
    /\ Len(cs.chunks) = 3
    /\ Len(cs.chunks[3]) = 1

\* ============================================= utils/conversation_history.py

\* The largest max_turns and turns_per_summary a ConversationHistory is
\* constructed with, and the most add_turn calls made on it.
MaxTurns == 2
MaxTurnsPerSummary == 3
MaxAdds == 4

\* The remote_client argument of add_turn: None, or a client.
Clients == {"none", "client"}

\* What a call of _summarize_turns may come to: the import of line 103 fails
\* (the prompts are in a package named minions, which an installation may or
\* may not have), the chat call returns a summary, or the chat call raises.
SummaryOutcomes == {"import_raised", "chat_returned", "chat_raised"}

\* outputs[0] of the chat call of line 124
SummaryReply == <<"summary">>

\* No call on the object yet.
NoCall ==
    [op |-> "none", outcome |-> "none", turn |-> 0, n |-> NoArgument,
     turns |-> <<>>, latest |-> 0]

\* ConversationHistory.__init__, lines 57-62.  A turn is written as the
\* number of the add_turn call that brought it; dropped and with_client keep,
\* for the claims, the turns add_turn has removed, each with whether it was
\* handed to _summarize_turns, and whether every add_turn had a client.
InitHistory ==
    /\ RunOff
    /\ \E max_turns \in 0..MaxTurns, turns_per_summary \in 1..MaxTurnsPerSummary,
          summarize_older_turns \in BOOLEAN :
        ch = [pc |-> "constructed",
              turns |-> <<>>,
              max_turns |-> max_turns,
              summary |-> <<>>,
              turns_since_last_summary |-> 0,
              turns_per_summary |-> turns_per_summary,
              summarize_older_turns |-> summarize_older_turns,
              added |-> 0, dropped |-> <<>>, with_client |-> TRUE,
              last |-> NoCall]
    /\ other = Off /\ batch = Off /\ ex = Off /\ cs = Off /\ bm = Off

\* _summarize_turns, lines 103-129: the summary after the call.  The chat
\* call's exception is caught and the old summary kept (lines 127-129).
_summarize_turns(summary, outcome) ==
    IF outcome = "chat_returned" THEN SummaryReply ELSE summary

\* The turns removed from the list, each marked with whether it was passed to
\* _summarize_turns.
Removed(turns, summarized) ==
    [i \in 1..Len(turns) |-> [turn |-> turns[i], summarized |-> summarized]]

\* add_turn, lines 73-93
add_turn ==
    /\ ch.pc = "constructed"
    /\ ch.added < MaxAdds
    /\ \E remote_client \in Clients, outcome \in SummaryOutcomes :
        LET turn == ch.added + 1
            turns == Append(ch.turns, turn)
            since == ch.turns_since_last_summary + 1
            cut == Len(turns) - ch.max_turns + 1
            turns_to_summarize == PySlice(turns, 0, cut)
            called == [op |-> "add_turn", outcome |-> "returned", turn |-> turn,
                       n |-> NoArgument, turns |-> <<>>, latest |-> 0]
            base == [ch EXCEPT !.added = turn,
                               !.with_client = ch.with_client /\ remote_client # "none",
                               !.turns_since_last_summary = since,
                               !.last = called]
        IN  IF Len(turns) > ch.max_turns /\ ch.summarize_older_turns
                /\ remote_client # "none"
            THEN IF since >= ch.turns_per_summary
                 THEN ch' = [base EXCEPT
                        !.turns = PySliceFrom(turns, cut),
                        !.dropped = ch.dropped \o Removed(turns_to_summarize, TRUE),
                        !.summary = _summarize_turns(ch.summary, outcome),
                        !.turns_since_last_summary =
                            IF outcome = "import_raised" THEN since ELSE 0,
                        !.last = [called EXCEPT !.outcome =
                            IF outcome = "import_raised" THEN "raised"
                            ELSE "returned"]]
                 ELSE ch' = [base EXCEPT
                        !.turns = Tail(turns),
                        !.dropped = ch.dropped \o Removed(<<Head(turns)>>, FALSE)]
            ELSE IF Len(turns) > ch.max_turns
            THEN ch' = [base EXCEPT
                        !.turns = Tail(turns),
                        !.dropped = ch.dropped \o Removed(<<Head(turns)>>, FALSE)]
            ELSE ch' = [base EXCEPT !.turns = turns]
    /\ UNCHANGED <<vars, other, batch, ex, cs, bm>>

\* get_turns(n), lines 141-143: n is None or a number.
get_turns(turns, n) ==
    IF ~n.given \/ n.value >= Len(turns) THEN turns
    ELSE PySliceFrom(turns, -n.value)

\* A call of get_turns
GetTurns ==
    /\ ch.pc = "constructed"
    /\ \E n \in {NoArgument} \cup {Argument(m) : m \in 0..(MaxTurns + 1)} :
        ch' = [ch EXCEPT !.last = [NoCall EXCEPT !.op = "get_turns",
                                                 !.outcome = "returned",
                                                 !.n = n,
                                                 !.turns = get_turns(ch.turns, n)]]
    /\ UNCHANGED <<vars, other, batch, ex, cs, bm>>

\* get_latest_turn, lines 147-149: None (written 0) for an empty history.
get_latest_turn(turns) == IF turns = <<>> THEN 0 ELSE turns[Len(turns)]

\* A call of get_latest_turn
GetLatestTurn ==
    /\ ch.pc = "constructed"
    /\ ch' = [ch EXCEPT !.last = [NoCall EXCEPT !.op = "get_latest_turn",
                                                !.outcome = "returned",
                                                !.latest = get_latest_turn(ch.turns)]]
    /\ UNCHANGED <<vars, other, batch, ex, cs, bm>>

\* clear, line 153
clear ==
    /\ ch.pc = "constructed"
    /\ ch' = [ch EXCEPT !.turns = <<>>,
                        !.last = [NoCall EXCEPT !.op = "clear",
                                                !.outcome = "returned"]]
    /\ UNCHANGED <<vars, other, batch, ex, cs, bm>>

NextHistory ==
    \/ add_turn
    \/ GetTurns
    \/ GetLatestTurn
    \/ clear

SpecHistory == InitHistory /\ [][NextHistory]_allvars

\* C28 (as claimed): whenever a call on a history has returned, it stores at
\* most max_turns turns, and for max_turns >= 1 the turn the last add_turn
\* brought is the one get_latest_turn returns.
C28_WindowKeepsLatest ==
    /\ ch.last.outcome = "returned" => Len(ch.turns) <= ch.max_turns
    /\ (ch.max_turns >= 1 /\ ch.last.op = "add_turn" /\ ch.last.outcome = "returned")
            => get_latest_turn(ch.turns) = ch.last.turn

\* C29 (as claimed): with summarize_older_turns on and a client passed to
\* every add_turn, every turn add_turn has removed from the turns of the
\* history was among the turns_to_summarize handed to _summarize_turns in the
\* call that removed it (stated for a window of at least one turn).
C29_NoTurnLeavesUnsummarised ==
    (ch.summarize_older_turns /\ ch.with_client /\ ch.max_turns >= 1) =>
        \A i \in 1..Len(ch.dropped) : ch.dropped[i].summarized

\* C30 (as claimed): get_turns(n) with a number n >= 0 returns the
\* min(n, len(turns)) turns added last, the oldest of them first; get_turns(0)
\* returns no turn.
C30_GetTurnsMostRecent ==
    (ch.last.op = "get_turns" /\ ch.last.n.given) =>
        LET most == IF ch.last.n.value <= Len(ch.turns)
                    THEN ch.last.n.value ELSE Len(ch.turns)
        IN  ch.last.turns
                = SubSeq(ch.turns, Len(ch.turns) - most + 1, Len(ch.turns))

====
